---- MODULE Spec2Model ----
(***************************************************************************)
(* ConcurrentHashMap<Key, Value, NumBuckets> of include/concurrent_hashmap *)
(* .hpp: a fixed array of buckets, each a std::list of (key, value) pairs  *)
(* guarded by its own std::shared_mutex.  Every public method is split at  *)
(* its lock operations: a thread is "wait"ing for a bucket's mutex, has it *)
(* "held", or has released it and is about to "ret"urn.                    *)
(*                                                                         *)
(* The header as written does not compile (line 21 spells const as "cont", *)
(* line 62 names the member "item"); the model reads both as the evident   *)
(* "const" and "items", the only reading under which the callers in        *)
(* test.cpp and src/benchmark.cpp build.                                   *)
(***************************************************************************)
EXTENDS Integers, Sequences, FiniteSets, TLC

\* ---------------------------------------------------------------- bounds
NumThreads == 2      \* threads sharing one map
MaxKey == 1          \* keys are 0..MaxKey
MaxVal == 2          \* values are 1..MaxVal
MaxHash == 2         \* std::hash<Key> yields 0..MaxHash
PerThread == 2       \* keys each worker of the stress test inserts
NumBuckets == 2      \* template parameter NumBuckets (default 1024)

Threads == 1..NumThreads
Keys == 0..MaxKey
Vals == 1..MaxVal
HashVals == 0..MaxHash
BucketIds == 0..(NumBuckets - 1)

VARIABLES
    hashOf,     \* std::hash<Key>: fixed for the life of the program
    buckets_,   \* buckets_[b]: the list "items" of bucket b
    mutex,      \* mutex[b]: the shared_mutex of bucket b
    pc,         \* per thread: "idle", "wait", "held", "ret"
    op,         \* per thread: the method it is in
    key,        \* per thread: argument key
    val,        \* per thread: argument value
    it,         \* per thread: the iterator its scan of the chain ended at
    idx,        \* per thread: position of the range-for over buckets_
    total,      \* per thread: the local total of size()
    res,        \* per thread: the returned value, <<>> for void / nullopt
    seen,       \* history: per pending get, the results its key had since the call
    everPut,    \* history: the keys some put was ever called with
    map_,       \* baseline: the unordered_map of a MutexHashMap given the same calls
    ref,        \* baseline: per thread, what the MutexHashMap returned
    counts,     \* history: per size/clear call, the entry counts the map had since the call
    first,      \* history: per size/clear call, the entry count at the call
    racing,     \* history: per size/clear call, the mutating methods other threads were in
    test,       \* sequential harness: the test case in progress
    script,     \* sequential harness: the calls the test case has yet to make
    obs,        \* sequential harness: the calls made and what each returned
    iter,       \* stress test: per thread, the loop variable i
    phase       \* stress test: "insert" until the workers are joined, then "verify"

coreVars == <<hashOf, buckets_, mutex, pc, op, key, val, it, idx, total, res>>
getVars == <<seen, everPut>>
refVars == <<map_, ref>>
snapVars == <<counts, first, racing>>
histVars == <<getVars, refVars, snapVars>>
seqVars == <<test, script, obs>>
stressVars == <<iter, phase>>
vars == <<coreVars, histVars, seqVars, stressVars>>

\* ------------------------------------------------------- pure operations
\* std::pair<Key, Value>
Pair(k, v) == [first |-> k, second |-> v]

\* A getBucketIndex() that sends every key to one bucket: one lock for the map.
getBucketIndexOneStripe(k) == 0

\* size_t getBucketIndex(const Key&) const
getBucketIndex(k) == hashOf[k] % NumBuckets

\* The first position at or after i whose key is k; Len(items) + 1 is end().
RECURSIVE FindFrom(_, _, _)
FindFrom(items, k, i) ==
    IF i > Len(items) THEN Len(items) + 1
    ELSE IF items[i].first = k THEN i
    ELSE FindFrom(items, k, i + 1)

\* The scan for the first entry of key k, as the range-for of get() and put()
\* and the std::find_if of remove() make it.
find_if(items, k) == FindFrom(items, k, 1)

\* A get() that takes the first entry of the chain for the match.
GetItemsNoCompare(items, k) ==
    IF items # <<>> THEN <<items[1].second>> ELSE <<>>

\* get(): return v of the first match, else nullopt.
GetItems(items, k) ==
    LET i == find_if(items, k)
    IN  IF i <= Len(items) THEN <<items[i].second>> ELSE <<>>

\* A put() that leaves the value of the entry it found as it was.
PutAtNoOverwrite(items, i, k, v) ==
    IF i <= Len(items) THEN items ELSE Append(items, Pair(k, v))

\* A put() that assigns to the first entry of the chain without comparing keys.
PutAtFirstEntry(items, i, k, v) ==
    IF items # <<>>
    THEN [items EXCEPT ![1].second = v]
    ELSE Append(items, Pair(k, v))

\* put(): v = value on the match the scan stopped at, else emplace_back.
PutAt(items, i, k, v) ==
    IF i <= Len(items)
    THEN [items EXCEPT ![i].second = v]
    ELSE Append(items, Pair(k, v))

\* A remove() that erases without comparing the iterator with end().
EraseAtUnchecked(items, i) ==
    IF i <= Len(items)
    THEN SubSeq(items, 1, i - 1) \o SubSeq(items, i + 1, Len(items))
    ELSE SubSeq(items, 1, Len(items) - 1)

\* A remove() that reports the match and leaves the entry in the chain.
EraseAtKeep(items, i) == items

\* remove(): if (it != end) erase(it).
EraseAt(items, i) ==
    IF i <= Len(items)
    THEN SubSeq(items, 1, i - 1) \o SubSeq(items, i + 1, Len(items))
    ELSE items

\* A size() that assigns where it should accumulate.
SizeSumAssign(n, items) == Len(items)

\* size(): total += bucket.items.size().
SizeSum(n, items) == n + Len(items)

\* A clear() that drops the first entry of the chain only.
ClearItemsPopFront(items) == IF items = <<>> THEN <<>> ELSE Tail(items)

\* bucket.items.clear(): the chain without any entry.
ClearItems(items) == <<>>

\* ------------------------------------------------------ std::shared_mutex
Unlocked == [owner |-> 0, shared |-> {}]

\* A lock() that waits for the exclusive owner only, not for the readers.
CanLockIgnoringReaders(m) == m.owner = 0
\* A lock() that never waits.
CanLockNoWait(m) == TRUE

\* A lock_shared() that waits for the readers too, as lock() does.
CanLockSharedAlone(m) == m.owner = 0 /\ m.shared = {}

\* lock(): exclusive ownership, granted when nobody holds the mutex.
CanLock(m) == m.owner = 0 /\ m.shared = {}
\* lock_shared(): granted when no thread holds it exclusively.
CanLockShared(m) == m.owner = 0

\* An unlock() that leaves the thread the owner.
UnlockKeep(m, t) == m

\* An unlock_shared() that leaves the thread among the shared holders.
UnlockSharedKeep(m, t) == m

Lock(m, t) == [m EXCEPT !.owner = t]
LockShared(m, t) == [m EXCEPT !.shared = @ \cup {t}]
Unlock(m, t) == [m EXCEPT !.owner = 0]
UnlockShared(m, t) == [m EXCEPT !.shared = @ \ {t}]

\* ------------------------------------------------------------------ Init
\* A default-constructed map whose keys are drawn from K, no thread in a call.
CoreInit(K) ==
    /\ hashOf \in [K -> HashVals]
    /\ buckets_ = [b \in BucketIds |-> <<>>]
    /\ mutex = [b \in BucketIds |-> Unlocked]
    /\ pc = [t \in Threads |-> "idle"]
    /\ op = [t \in Threads |-> "none"]
    /\ key = [t \in Threads |-> 0]
    /\ val = [t \in Threads |-> 0]
    /\ it = [t \in Threads |-> 0]
    /\ idx = [t \in Threads |-> 0]
    /\ total = [t \in Threads |-> 0]
    /\ res = [t \in Threads |-> <<>>]

HarnessInit ==
    /\ seen = [t \in Threads |-> {}]
    /\ everPut = {}
    /\ map_ = <<>>
    /\ ref = [t \in Threads |-> <<>>]
    /\ counts = [t \in Threads |-> {}]
    /\ first = [t \in Threads |-> 0]
    /\ racing = [t \in Threads |-> {}]
    /\ test = "none"
    /\ script = <<>>
    /\ obs = <<>>
    /\ iter = [t \in Threads |-> 0]
    /\ phase = "insert"

Init == CoreInit(Keys) /\ HarnessInit

\* --------------------------------------------------------------- callers
\* A thread enters a method: the arguments are bound, nothing is locked yet.
Call(t, o, k, v) ==
    /\ pc[t] = "idle"
    /\ pc' = [pc EXCEPT ![t] = "wait"]
    /\ op' = [op EXCEPT ![t] = o]
    /\ key' = [key EXCEPT ![t] = k]
    /\ val' = [val EXCEPT ![t] = v]
    /\ UNCHANGED <<hashOf, buckets_, mutex, it, idx, total, res>>

\* The caller takes the result: the thread is free for its next call.
Return(t) ==
    /\ pc[t] = "ret"
    /\ pc' = [pc EXCEPT ![t] = "idle"]
    /\ op' = [op EXCEPT ![t] = "none"]
    /\ key' = [key EXCEPT ![t] = 0]
    /\ val' = [val EXCEPT ![t] = 0]
    /\ res' = [res EXCEPT ![t] = <<>>]
    /\ UNCHANGED <<hashOf, buckets_, mutex, it, idx, total>>

\* ------------------------------------------------------- get / contains
\* shared_lock lock(bucket.mutex) in get(); contains() is get().has_value().
GetLock(t) ==
    /\ pc[t] = "wait"
    /\ op[t] \in {"get", "contains"}
    /\ LET b == getBucketIndex(key[t])
       IN  /\ CanLockShared(mutex[b])
           /\ mutex' = [mutex EXCEPT ![b] = LockShared(@, t)]
    /\ pc' = [pc EXCEPT ![t] = "held"]
    /\ UNCHANGED <<hashOf, buckets_, op, key, val, it, idx, total, res>>

\* The scan of get(), then the end of the lock's scope.
GetScan(t) ==
    /\ pc[t] = "held"
    /\ op[t] \in {"get", "contains"}
    /\ LET b == getBucketIndex(key[t])
           v == GetItems(buckets_[b], key[t])
       IN  /\ res' = [res EXCEPT ![t] =
                        IF op[t] = "contains" THEN <<v # <<>>>> ELSE v]
           /\ mutex' = [mutex EXCEPT ![b] = UnlockShared(@, t)]
    /\ pc' = [pc EXCEPT ![t] = "ret"]
    /\ UNCHANGED <<hashOf, buckets_, op, key, val, it, idx, total>>

\* ------------------------------------------------------------------ put
\* unique_lock lock(bucket.mutex), then the scan for the key.
PutLock(t) ==
    /\ pc[t] = "wait"
    /\ op[t] = "put"
    /\ LET b == getBucketIndex(key[t])
       IN  /\ CanLock(mutex[b])
           /\ mutex' = [mutex EXCEPT ![b] = Lock(@, t)]
           /\ it' = [it EXCEPT ![t] = find_if(buckets_[b], key[t])]
    /\ pc' = [pc EXCEPT ![t] = "held"]
    /\ UNCHANGED <<hashOf, buckets_, op, key, val, idx, total, res>>

\* The write the scan decided on, then the end of the lock's scope.
PutWrite(t) ==
    /\ pc[t] = "held"
    /\ op[t] = "put"
    /\ LET b == getBucketIndex(key[t])
       IN  /\ buckets_' = [buckets_ EXCEPT ![b] = PutAt(@, it[t], key[t], val[t])]
           /\ mutex' = [mutex EXCEPT ![b] = Unlock(@, t)]
    /\ it' = [it EXCEPT ![t] = 0]
    /\ pc' = [pc EXCEPT ![t] = "ret"]
    /\ UNCHANGED <<hashOf, op, key, val, idx, total, res>>

\* --------------------------------------------------------------- remove
\* unique_lock lock(bucket.mutex), then std::find_if.
RemoveLock(t) ==
    /\ pc[t] = "wait"
    /\ op[t] = "remove"
    /\ LET b == getBucketIndex(key[t])
       IN  /\ CanLock(mutex[b])
           /\ mutex' = [mutex EXCEPT ![b] = Lock(@, t)]
           /\ it' = [it EXCEPT ![t] = find_if(buckets_[b], key[t])]
    /\ pc' = [pc EXCEPT ![t] = "held"]
    /\ UNCHANGED <<hashOf, buckets_, op, key, val, idx, total, res>>

\* if (it != end) { erase(it); return true; } return false;
RemoveErase(t) ==
    /\ pc[t] = "held"
    /\ op[t] = "remove"
    /\ LET b == getBucketIndex(key[t])
       IN  /\ res' = [res EXCEPT ![t] = <<it[t] <= Len(buckets_[b])>>]
           /\ buckets_' = [buckets_ EXCEPT ![b] = EraseAt(@, it[t])]
           /\ mutex' = [mutex EXCEPT ![b] = Unlock(@, t)]
    /\ it' = [it EXCEPT ![t] = 0]
    /\ pc' = [pc EXCEPT ![t] = "ret"]
    /\ UNCHANGED <<hashOf, op, key, val, idx, total>>

\* ----------------------------------------------------------------- size
\* One iteration of the range-for: std::shared_lock lock(bucket.mutex).
SizeLock(t) ==
    /\ pc[t] = "wait"
    /\ op[t] = "size"
    /\ CanLockShared(mutex[idx[t]])
    /\ mutex' = [mutex EXCEPT ![idx[t]] = LockShared(@, t)]
    /\ pc' = [pc EXCEPT ![t] = "held"]
    /\ UNCHANGED <<hashOf, buckets_, op, key, val, it, idx, total, res>>

\* total += bucket.items.size(); the lock's scope ends; next bucket or return.
SizeCount(t) ==
    /\ pc[t] = "held"
    /\ op[t] = "size"
    /\ LET n == SizeSum(total[t], buckets_[idx[t]])
       IN  IF idx[t] + 1 < NumBuckets
           THEN /\ total' = [total EXCEPT ![t] = n]
                /\ idx' = [idx EXCEPT ![t] = @ + 1]
                /\ pc' = [pc EXCEPT ![t] = "wait"]
                /\ res' = res
           ELSE /\ total' = [total EXCEPT ![t] = 0]
                /\ idx' = [idx EXCEPT ![t] = 0]
                /\ pc' = [pc EXCEPT ![t] = "ret"]
                /\ res' = [res EXCEPT ![t] = <<n>>]
    /\ mutex' = [mutex EXCEPT ![idx[t]] = UnlockShared(@, t)]
    /\ UNCHANGED <<hashOf, buckets_, op, key, val, it>>

\* ---------------------------------------------------------------- clear
\* One iteration of the range-for: std::unique_lock lock(bucket.mutex).
ClearLock(t) ==
    /\ pc[t] = "wait"
    /\ op[t] = "clear"
    /\ CanLock(mutex[idx[t]])
    /\ mutex' = [mutex EXCEPT ![idx[t]] = Lock(@, t)]
    /\ pc' = [pc EXCEPT ![t] = "held"]
    /\ UNCHANGED <<hashOf, buckets_, op, key, val, it, idx, total, res>>

\* bucket.items.clear(); the lock's scope ends; next bucket or return.
ClearDrain(t) ==
    /\ pc[t] = "held"
    /\ op[t] = "clear"
    /\ buckets_' = [buckets_ EXCEPT ![idx[t]] = ClearItems(@)]
    /\ mutex' = [mutex EXCEPT ![idx[t]] = Unlock(@, t)]
    /\ IF idx[t] + 1 < NumBuckets
       THEN /\ idx' = [idx EXCEPT ![t] = @ + 1]
            /\ pc' = [pc EXCEPT ![t] = "wait"]
       ELSE /\ idx' = [idx EXCEPT ![t] = 0]
            /\ pc' = [pc EXCEPT ![t] = "ret"]
    /\ UNCHANGED <<hashOf, op, key, val, it, total, res>>

\* A step of a method already entered.
Step(t) ==
    \/ GetLock(t)
    \/ GetScan(t)
    \/ PutLock(t)
    \/ PutWrite(t)
    \/ RemoveLock(t)
    \/ RemoveErase(t)
    \/ SizeLock(t)
    \/ SizeCount(t)
    \/ ClearLock(t)
    \/ ClearDrain(t)

\* ------------------------------------------ Spec: the free concurrent run
\* Any thread may call any method with any argument at any time.
CallGet(t) == \E k \in Keys : Call(t, "get", k, 0)
CallPut(t) == \E k \in Keys, v \in Vals : Call(t, "put", k, v)
CallRemove(t) == \E k \in Keys : Call(t, "remove", k, 0)
CallContains(t) == \E k \in Keys : Call(t, "contains", k, 0)
CallSize(t) == Call(t, "size", 0, 0)
CallClear(t) == Call(t, "clear", 0, 0)

\* The history and harness variables stay as Init left them.
Plain(A) == A /\ UNCHANGED <<histVars, seqVars, stressVars>>

Next ==
    \E t \in Threads :
        \/ Plain(CallGet(t))
        \/ Plain(CallPut(t))
        \/ Plain(CallRemove(t))
        \/ Plain(CallContains(t))
        \/ Plain(CallSize(t))
        \/ Plain(CallClear(t))
        \/ Plain(GetLock(t))
        \/ Plain(GetScan(t))
        \/ Plain(PutLock(t))
        \/ Plain(PutWrite(t))
        \/ Plain(RemoveLock(t))
        \/ Plain(RemoveErase(t))
        \/ Plain(SizeLock(t))
        \/ Plain(SizeCount(t))
        \/ Plain(ClearLock(t))
        \/ Plain(ClearDrain(t))
        \/ Plain(Return(t))

Spec == Init /\ [][Next]_vars

\* ------------------------- SpecHist: the free run, with its history kept
\* What a lookup of k may answer in the map B: nullopt when k has no entry,
\* else the value of an entry of k.
Answers(B, k) ==
    LET vs == {B[b][i].second : <<b, i>> \in
                  {e \in UNION {{<<b, i>> : i \in 1..Len(B[b])} : b \in BucketIds} :
                      B[e[1]][e[2]].first = k}}
    IN  IF vs = {} THEN {<<>>} ELSE {<<v>> : v \in vs}

\* seen[u], for a get that has been called and has not yet left its lock: every
\* answer its key had in a state since the call.  everPut: the keys of all puts
\* called so far.
Observe ==
    /\ seen' = [u \in Threads |->
                  IF op'[u] = "get" /\ pc'[u] \in {"wait", "held"}
                  THEN (IF pc[u] = "idle" THEN {} ELSE seen[u])
                           \cup Answers(buckets_', key'[u])
                  ELSE IF op'[u] = "get" /\ pc'[u] = "ret" THEN seen[u]
                  ELSE {}]
    /\ everPut' = everPut \cup {key'[u] : u \in {w \in Threads : op'[w] = "put"}}

Hist(A) == A /\ Observe /\ UNCHANGED <<refVars, snapVars, seqVars, stressVars>>

NextHist ==
    \E t \in Threads :
        \/ Hist(CallGet(t))
        \/ Hist(CallPut(t))
        \/ Hist(CallRemove(t))
        \/ Hist(CallContains(t))
        \/ Hist(CallSize(t))
        \/ Hist(CallClear(t))
        \/ Hist(GetLock(t))
        \/ Hist(GetScan(t))
        \/ Hist(PutLock(t))
        \/ Hist(PutWrite(t))
        \/ Hist(RemoveLock(t))
        \/ Hist(RemoveErase(t))
        \/ Hist(SizeLock(t))
        \/ Hist(SizeCount(t))
        \/ Hist(ClearLock(t))
        \/ Hist(ClearDrain(t))
        \/ Hist(Return(t))

SpecHist == Init /\ [][NextHist]_vars

\* ------------ SpecRef: the free run of get, put and remove, next to the
\* baseline.  MutexHashMap of benchmark.cpp is given the same calls: each call
\* runs on it, whole under its one mutex, at the step in which the call on the
\* ConcurrentHashMap reads or writes its chain.
\* map_.find(key), then it->second or std::nullopt.
MutexGet(mp, k) == IF k \in DOMAIN mp THEN <<mp[k]>> ELSE <<>>

\* map_[key] = value.
MutexPut(mp, k, v) == [x \in DOMAIN mp \cup {k} |-> IF x = k THEN v ELSE mp[x]]

\* map_.erase(key) > 0, and the map after it.
MutexErased(mp, k) == k \in DOMAIN mp
MutexRemove(mp, k) == [x \in DOMAIN mp \ {k} |-> mp[x]]

\* The call of thread t runs on the MutexHashMap.
Baseline(t) ==
    /\ map_' = CASE op[t] = "put" -> MutexPut(map_, key[t], val[t])
                 [] op[t] = "remove" -> MutexRemove(map_, key[t])
                 [] OTHER -> map_
    /\ ref' = [ref EXCEPT ![t] =
                  CASE op[t] = "get" -> MutexGet(map_, key[t])
                    [] op[t] = "remove" -> <<MutexErased(map_, key[t])>>
                    [] OTHER -> <<>>]

\* The step in which the call of t takes effect, on both maps.
Effect(t, A) ==
    A /\ Baseline(t) /\ UNCHANGED <<getVars, snapVars, seqVars, stressVars>>

\* The caller takes both results.
RefReturn(t) ==
    /\ Return(t)
    /\ ref' = [ref EXCEPT ![t] = <<>>]
    /\ UNCHANGED <<getVars, map_, snapVars, seqVars, stressVars>>

NextRef ==
    \E t \in Threads :
        \/ Plain(CallGet(t))
        \/ Plain(CallPut(t))
        \/ Plain(CallRemove(t))
        \/ Plain(GetLock(t))
        \/ Effect(t, GetScan(t))
        \/ Plain(PutLock(t))
        \/ Effect(t, PutWrite(t))
        \/ Plain(RemoveLock(t))
        \/ Effect(t, RemoveErase(t))
        \/ RefReturn(t)

SpecRef == Init /\ [][NextRef]_vars

\* ---------- SpecSnap: size() and clear() raced by put, remove and clear
\* The free run of the four methods, with a history of each size() and clear()
\* call from its invocation until the caller takes the result.
\* The number of entries of the map B.
CountOf(B) == Cardinality(UNION {{<<b, i>> : i \in 1..Len(B[b])} : b \in BucketIds})

SnapObserve ==
    LET active(u) == op'[u] \in {"size", "clear"}
        fresh(u) == pc[u] = "idle"
    IN  /\ counts' = [u \in Threads |->
                         IF active(u)
                         THEN (IF fresh(u) THEN {} ELSE counts[u])
                                  \cup {CountOf(buckets_')}
                         ELSE {}]
        /\ first' = [u \in Threads |->
                        IF active(u)
                        THEN (IF fresh(u) THEN CountOf(buckets_') ELSE first[u])
                        ELSE 0]
        /\ racing' = [u \in Threads |->
                         IF active(u)
                         THEN (IF fresh(u) THEN {} ELSE racing[u])
                                  \cup {op'[w] : w \in {x \in Threads \ {u} :
                                            /\ pc'[x] \in {"wait", "held"}
                                            /\ op'[x] \in {"put", "remove", "clear"}}}
                         ELSE {}]

Snap(A) == A /\ SnapObserve /\ UNCHANGED <<getVars, refVars, seqVars, stressVars>>

NextSnap ==
    \E t \in Threads :
        \/ Snap(CallPut(t))
        \/ Snap(CallRemove(t))
        \/ Snap(CallSize(t))
        \/ Snap(CallClear(t))
        \/ Snap(PutLock(t))
        \/ Snap(PutWrite(t))
        \/ Snap(RemoveLock(t))
        \/ Snap(RemoveErase(t))
        \/ Snap(SizeLock(t))
        \/ Snap(SizeCount(t))
        \/ Snap(ClearLock(t))
        \/ Snap(ClearDrain(t))
        \/ Snap(Return(t))

SpecSnap == Init /\ [][NextSnap]_vars

\* --------------------------- SpecSeq: the sequential tests of one thread
\* main() of test.cpp and testCorrectness() of benchmark.cpp call the map from
\* one thread, each call made after the one before has returned.  The thread
\* first brings the map into any state it can reach, then runs a test case:
\* a fixed sequence of calls whose results are recorded in obs.
Main == 1

CallOf(o, k, v) == [op |-> o, key |-> k, val |-> v]

\* Sequences of distinct keys, one to MaxKey + 1 long.
DistinctKeySeqs ==
    {ks \in UNION {[1..n -> Keys] : n \in 1..(MaxKey + 1)} :
        \A i, j \in DOMAIN ks : i # j => ks[i] # ks[j]}

\* Outside a test case: any mutation, to reach any state of the map.
SeqArrange ==
    /\ test = "none"
    /\ \/ \E k \in Keys, v \in Vals : Call(Main, "put", k, v)
       \/ \E k \in Keys : Call(Main, "remove", k, 0)
       \/ Call(Main, "clear", 0, 0)
    /\ UNCHANGED <<histVars, seqVars, stressVars>>

\* Test 3 of test.cpp, Test 2 of testCorrectness: put, put again, get; with
\* size() before and after the second put.
StartUpdate ==
    /\ test = "none" /\ pc[Main] = "idle"
    /\ \E k \in Keys, v1, v2 \in Vals :
          script' = <<CallOf("put", k, v1), CallOf("size", 0, 0),
                      CallOf("put", k, v2), CallOf("get", k, 0),
                      CallOf("size", 0, 0)>>
    /\ test' = "update"
    /\ UNCHANGED <<coreVars, histVars, obs, stressVars>>

\* Test 4 of test.cpp, Tests 3 and 4 of testCorrectness: remove, get, contains;
\* with a get before the remove, and size() before and after.
StartRemove ==
    /\ test = "none" /\ pc[Main] = "idle"
    /\ \E k \in Keys :
          script' = <<CallOf("get", k, 0), CallOf("size", 0, 0),
                      CallOf("remove", k, 0), CallOf("get", k, 0),
                      CallOf("contains", k, 0), CallOf("size", 0, 0)>>
    /\ test' = "remove"
    /\ UNCHANGED <<coreVars, histVars, obs, stressVars>>

\* Tests 1 and 5 of test.cpp: puts of distinct keys into an empty map, then
\* size().
StartFill ==
    /\ test = "none" /\ pc[Main] = "idle"
    /\ \A b \in BucketIds : buckets_[b] = <<>>
    /\ \E ks \in DistinctKeySeqs :
          \E vs \in [DOMAIN ks -> Vals] :
              script' = [i \in 1..(Len(ks) + 1) |->
                            IF i <= Len(ks) THEN CallOf("put", ks[i], vs[i])
                            ELSE CallOf("size", 0, 0)]
    /\ test' = "fill"
    /\ UNCHANGED <<coreVars, histVars, obs, stressVars>>

\* clear() on a map in any state: size() before and after, then a get of
\* every key, then a put and a get of it.
StartClear ==
    /\ test = "none" /\ pc[Main] = "idle"
    /\ \E k \in Keys, v \in Vals :
          script' = <<CallOf("size", 0, 0), CallOf("clear", 0, 0),
                      CallOf("size", 0, 0)>>
                    \o [i \in 1..(MaxKey + 1) |-> CallOf("get", i - 1, 0)]
                    \o <<CallOf("put", k, v), CallOf("get", k, 0)>>
    /\ test' = "clear"
    /\ UNCHANGED <<coreVars, histVars, obs, stressVars>>

\* The next call of the test case.
SeqCall ==
    /\ script # <<>>
    /\ Call(Main, Head(script).op, Head(script).key, Head(script).val)
    /\ script' = Tail(script)
    /\ UNCHANGED <<histVars, test, obs, stressVars>>

\* The call returns; inside a test case its result is recorded.
SeqReturn ==
    /\ Return(Main)
    /\ obs' = IF test = "none" THEN obs
              ELSE Append(obs, [op |-> op[Main], key |-> key[Main],
                                val |-> val[Main], res |-> res[Main]])
    /\ UNCHANGED <<histVars, test, script, stressVars>>

\* The test case is over.
EndTest ==
    /\ test # "none" /\ script = <<>> /\ pc[Main] = "idle"
    /\ test' = "none"
    /\ obs' = <<>>
    /\ UNCHANGED <<coreVars, histVars, script, stressVars>>

NextSeq ==
    \/ SeqArrange
    \/ StartUpdate
    \/ StartRemove
    \/ StartFill
    \/ StartClear
    \/ SeqCall
    \/ Plain(GetLock(Main))
    \/ Plain(GetScan(Main))
    \/ Plain(PutLock(Main))
    \/ Plain(PutWrite(Main))
    \/ Plain(RemoveLock(Main))
    \/ Plain(RemoveErase(Main))
    \/ Plain(SizeLock(Main))
    \/ Plain(SizeCount(Main))
    \/ Plain(ClearLock(Main))
    \/ Plain(ClearDrain(Main))
    \/ SeqReturn
    \/ EndTest

SpecSeq == Init /\ [][NextSeq]_vars

\* ------------------ SpecStress: Test 5 of testCorrectness, scaled down
\* NumThreads workers (10 in the test) each put PerThread keys of their own
\* (1000 in the test) with the value key * 2; once all are joined, a second
\* set of threads gets every key back.  A thread that has checked its keys
\* may also call size().
StressKeys == 0..(NumThreads * PerThread - 1)

\* int key = t * 1000 + i, for the worker with index t - 1.
StressKey(t, i) == (t - 1) * PerThread + i

InitStress == CoreInit(StressKeys) /\ HarnessInit

\* concurrent_map.put(key, key * 2) in the loop of a worker.
StressPut(t) ==
    /\ phase = "insert"
    /\ iter[t] < PerThread
    /\ Call(t, "put", StressKey(t, iter[t]), StressKey(t, iter[t]) * 2)
    /\ iter' = [iter EXCEPT ![t] = @ + 1]
    /\ UNCHANGED <<histVars, seqVars, phase>>

\* thread.join() for every worker, then the verifying threads are started.
StressJoin ==
    /\ phase = "insert"
    /\ \A t \in Threads : iter[t] = PerThread /\ pc[t] = "idle"
    /\ phase' = "verify"
    /\ iter' = [t \in Threads |-> 0]
    /\ UNCHANGED <<coreVars, histVars, seqVars>>

\* auto val = concurrent_map.get(key) in the loop of a verifying thread.
StressGet(t) ==
    /\ phase = "verify"
    /\ iter[t] < PerThread
    /\ Call(t, "get", StressKey(t, iter[t]), 0)
    /\ iter' = [iter EXCEPT ![t] = @ + 1]
    /\ UNCHANGED <<histVars, seqVars, phase>>

\* size() on the filled map.
StressSize(t) ==
    /\ phase = "verify"
    /\ iter[t] = PerThread
    /\ Call(t, "size", 0, 0)
    /\ UNCHANGED <<histVars, seqVars, stressVars>>

NextStress ==
    \/ StressJoin
    \/ \E t \in Threads :
        \/ StressPut(t)
        \/ StressGet(t)
        \/ StressSize(t)
        \/ Plain(PutLock(t))
        \/ Plain(PutWrite(t))
        \/ Plain(GetLock(t))
        \/ Plain(GetScan(t))
        \/ Plain(SizeLock(t))
        \/ Plain(SizeCount(t))
        \/ Plain(Return(t))

SpecStress == InitStress /\ [][NextStress]_vars

\* ----------- SpecRace: one thread's calls raced by the calls of the others
\* Between test cases the main thread arranges the map as in SpecSeq.  In the
\* test case "check" it calls contains(k) and then get(k) or remove(k), while
\* the other threads put, remove and clear as the workers of runBenchmark do;
\* in the test case "race" every thread calls remove(k) once, on a key that
\* has one entry, and no thread returns before the test is over.
StartCheck ==
    /\ test = "none" /\ pc[Main] = "idle"
    /\ \E k \in Keys, o \in {"get", "remove"} :
          script' = <<CallOf("contains", k, 0), CallOf(o, k, 0)>>
    /\ test' = "check"
    /\ UNCHANGED <<coreVars, histVars, obs, stressVars>>

\* The key of the test case "check".
CheckKey == IF script # <<>> THEN script[Len(script)].key ELSE obs[Len(obs)].key

\* Another thread mutates the map while the test case "check" runs.
Meddle(t) ==
    /\ t # Main
    /\ test \in {"check", "check-erased"}
    /\ \/ \E k \in Keys, v \in Vals : Call(t, "put", k, v)
       \/ \E k \in Keys : Call(t, "remove", k, 0)
       \/ Call(t, "clear", 0, 0)
    /\ UNCHANGED <<histVars, seqVars, stressVars>>

\* A step of thread t inside a method.  The test case becomes "check-erased"
\* when another thread's step takes the last entry of the key away after the
\* main thread's contains has scanned.
Watch(t, A) ==
    /\ A
    /\ test' = IF /\ t # Main
                  /\ test = "check"
                  /\ obs # <<>> \/ pc[Main] = "ret"
                  /\ Answers(buckets_, CheckKey) # {<<>>}
                  /\ Answers(buckets_', CheckKey) = {<<>>}
               THEN "check-erased"
               ELSE test
    /\ UNCHANGED <<histVars, script, obs, stressVars>>

StartRace ==
    /\ test = "none"
    /\ \A t \in Threads : pc[t] = "idle"
    /\ \E k \in Keys :
          /\ Answers(buckets_, k) # {<<>>}
          /\ script' = <<CallOf("remove", k, 0)>>
    /\ test' = "race"
    /\ UNCHANGED <<coreVars, histVars, obs, stressVars>>

\* map.remove(key) of one of the racing threads.
RaceCall(t) ==
    /\ test = "race"
    /\ Call(t, "remove", script[1].key, 0)
    /\ UNCHANGED <<histVars, seqVars, stressVars>>

\* Every racing thread has its result; the threads go on to return.
EndRace ==
    /\ test = "race"
    /\ \A t \in Threads : pc[t] = "ret"
    /\ test' = "none"
    /\ script' = <<>>
    /\ UNCHANGED <<coreVars, histVars, obs, stressVars>>

\* Another thread than the main one returns from its call.
OtherReturn(t) ==
    /\ t # Main
    /\ test # "race"
    /\ Plain(Return(t))

NextRace ==
    \/ SeqArrange
    \/ StartCheck
    \/ StartRace
    \/ EndRace
    \/ test # "race" /\ SeqCall
    \/ test # "race" /\ SeqReturn
    \/ EndTest
    \/ \E t \in Threads :
        \/ Meddle(t)
        \/ RaceCall(t)
        \/ OtherReturn(t)
        \/ Watch(t, GetLock(t))
        \/ Watch(t, GetScan(t))
        \/ Watch(t, PutLock(t))
        \/ Watch(t, PutWrite(t))
        \/ Watch(t, RemoveLock(t))
        \/ Watch(t, RemoveErase(t))
        \/ Watch(t, ClearLock(t))
        \/ Watch(t, ClearDrain(t))

SpecRace == Init /\ [][NextRace]_vars

\* ------------------------------------------------- what the claims speak of
\* The positions of all entries of the map.
Entries == UNION {{<<b, i>> : i \in 1..Len(buckets_[b])} : b \in BucketIds}
EntryAt(e) == buckets_[e[1]][e[2]]
KeyCount(k) == Cardinality({e \in Entries : EntryAt(e).first = k})
TotalEntries == Cardinality(Entries)

\* The bucket whose mutex thread t waits for or holds.
Target(t) == IF op[t] \in {"size", "clear"} THEN idx[t] ELSE getBucketIndex(key[t])
IsWriter(t) == op[t] \in {"put", "remove", "clear"}
IsReader(t) == op[t] \in {"get", "contains", "size"}
Holds(t, b) == pc[t] = "held" /\ Target(t) = b
Waits(t, b) == pc[t] = "wait" /\ Target(t) = b

\* C1: in every reachable state of any interleaving of the six methods, each
\* key has at most one entry in the whole map, and every entry lies in the
\* bucket its key hashes to (so no key is in two buckets).
C1_AtMostOneEntryPerKey ==
    /\ \A k \in DOMAIN hashOf : KeyCount(k) <= 1
    /\ \A e \in Entries : e[1] = getBucketIndex(EntryAt(e).first)

\* Two threads have both completed a put of the same key with different
\* values, the map holds two colliding keys, and the key is there once.
C1_Witness ==
    \E t, u \in Threads :
        /\ t # u
        /\ pc[t] = "ret" /\ op[t] = "put"
        /\ pc[u] = "ret" /\ op[u] = "put"
        /\ key[t] = key[u] /\ val[t] # val[u]
        /\ KeyCount(key[t]) = 1
        /\ Len(buckets_[getBucketIndex(key[t])]) = 2

\* C2, the states: a thread inside a mutation of bucket b owns b's mutex
\* exclusively and is alone in b; a thread inside a read of b holds b's mutex
\* shared and no thread owns it; the mutex is held by exactly those threads.
C2_Exclusion ==
    \A b \in BucketIds :
        /\ \A t \in Threads :
              Holds(t, b) /\ IsWriter(t) =>
                  /\ mutex[b] = [owner |-> t, shared |-> {}]
                  /\ \A u \in Threads \ {t} : ~Holds(u, b)
        /\ \A t \in Threads :
              Holds(t, b) /\ IsReader(t) =>
                  /\ t \in mutex[b].shared
                  /\ mutex[b].owner = 0
        /\ mutex[b].owner # 0 =>
              /\ mutex[b].shared = {}
              /\ Holds(mutex[b].owner, b) /\ IsWriter(mutex[b].owner)
        /\ \A t \in mutex[b].shared : Holds(t, b) /\ IsReader(t)

\* C2, the steps: a chain changes only in a step of the thread that owns its
\* mutex exclusively; a result or a running total is taken from a chain only by
\* a thread that holds the chain's mutex; the scan of put and remove leaves the
\* thread owning the mutex.
C2_Access ==
    /\ \A b \in BucketIds :
          buckets_'[b] # buckets_[b] =>
              \E t \in Threads :
                  /\ Holds(t, b) /\ IsWriter(t) /\ mutex[b].owner = t
                  /\ pc'[t] # "held"
    /\ \A t \in Threads :
          (res'[t] # res[t] /\ res'[t] # <<>>) \/ total'[t] > total[t] =>
              /\ pc[t] = "held"
              /\ \/ t \in mutex[Target(t)].shared
                 \/ mutex[Target(t)].owner = t
    /\ \A t \in Threads :
          it'[t] # it[t] /\ pc'[t] = "held" =>
              mutex'[Target(t)] = [owner |-> t, shared |-> {}]

\* C2: mutual exclusion of an exclusive holder with every other holder of the
\* same bucket, and every read or mutation of a chain made under its lock.
C2_LockDiscipline == [](C2_Exclusion) /\ [][C2_Access]_vars

\* A writer is inside bucket b while another thread waits for b's mutex.
C2_Witness ==
    \E t, u \in Threads, b \in BucketIds :
        /\ Holds(t, b) /\ IsWriter(t)
        /\ Waits(u, b)
        /\ buckets_[b] # <<>>

\* C3: per-bucket linearizability.  At most one thread is inside a mutation of
\* a bucket at a time (the writers of a bucket are totally ordered), and a get
\* returns an answer its key had in a state between the get's call and the
\* release of its lock: never a value that was not put for the key, nor one
\* overwritten or removed before the call.
C3_GetLinearizable ==
    /\ \A b \in BucketIds :
          Cardinality({t \in Threads : Holds(t, b) /\ IsWriter(t)}) <= 1
    /\ \A t \in Threads :
          pc[t] = "ret" /\ op[t] = "get" => res[t] \in seen[t]

\* A get has returned a value while its key had several answers during the
\* call, and the key has since been given another answer.
C3_Witness ==
    \E t \in Threads :
        /\ pc[t] = "ret" /\ op[t] = "get"
        /\ Cardinality(seen[t]) >= 2
        /\ res[t] # <<>>
        /\ res[t] \notin Answers(buckets_, key[t])

\* The bucket the hash of the call's key selects, computed from the hash alone.
HashTarget(t) ==
    IF op[t] \in {"size", "clear"} THEN idx[t] ELSE hashOf[key[t]] % NumBuckets

\* The lock acquisition thread t waits to make.
Acquire(t) ==
    \/ Plain(GetLock(t))
    \/ Plain(PutLock(t))
    \/ Plain(RemoveLock(t))
    \/ Plain(SizeLock(t))
    \/ Plain(ClearLock(t))

\* What a thread inside a method does next.
Proceed(t) ==
    \/ Plain(GetScan(t))
    \/ Plain(PutWrite(t))
    \/ Plain(RemoveErase(t))
    \/ Plain(SizeCount(t))
    \/ Plain(ClearDrain(t))

\* C5: a get, put, remove or contains waiting for bucket A can take A's lock at
\* once whenever every lock held at that moment is the lock of another bucket:
\* the holders of other buckets never block it.  A thread that holds a lock can
\* always make its next step, so each of the two operations runs to its return
\* on its own thread's steps alone.
C5_OtherBucketsDoNotBlock ==
    \A t \in Threads :
        /\ pc[t] = "wait" /\ op[t] \in {"get", "put", "remove", "contains"}
           /\ (\A u \in Threads \ {t} :
                  pc[u] = "held" => HashTarget(u) # HashTarget(t))
           => ENABLED Acquire(t)
        /\ pc[t] = "held" => ENABLED Proceed(t)
        /\ pc[t] = "ret" => ENABLED Plain(Return(t))

\* A put owns bucket B exclusively while a get waits for another bucket A.
C5_Witness ==
    \E t, u \in Threads :
        /\ pc[u] = "held" /\ op[u] = "put"
        /\ pc[t] = "wait" /\ op[t] = "get"
        /\ HashTarget(t) # HashTarget(u)
        /\ ENABLED Acquire(t)

\* The step of C8: a remove of a key that has no entry returns false and
\* changes no chain (so no bucket's contents and not the number of entries).
C8_RemoveAbsentStep ==
    \A t \in Threads :
        /\ pc[t] = "held" /\ op[t] = "remove" /\ pc'[t] = "ret"
        /\ KeyCount(key[t]) = 0
        => /\ res'[t] = <<FALSE>>
           /\ buckets_' = buckets_

\* C8: in every step of every interleaving, removing an absent key is a normal
\* return of false that leaves the map as it was.
C8_RemoveAbsent == [][C8_RemoveAbsentStep]_vars

\* A remove has returned false while the bucket of its key holds another key.
C8_Witness ==
    \E t \in Threads :
        /\ pc[t] = "ret" /\ op[t] = "remove" /\ res[t] = <<FALSE>>
        /\ buckets_[getBucketIndex(key[t])] # <<>>
        /\ KeyCount(key[t]) = 0

\* C9, the states: a get of a key no put was ever called with returns nullopt,
\* and a contains of it returns false, whatever was done to other keys.
C9_NeverPut ==
    \A t \in Threads :
        pc[t] = "ret" /\ key[t] \notin everPut =>
            /\ op[t] = "get" => res[t] = <<>>
            /\ op[t] = "contains" => res[t] = <<FALSE>>

\* C9, the steps: contains returns whether its key has an entry in the state
\* its scan is made in, which is when a get made there has a value.
C9_ContainsStep ==
    \A t \in Threads :
        pc[t] = "held" /\ op[t] = "contains" /\ pc'[t] = "ret" =>
            res'[t] = <<Answers(buckets_, key[t]) # {<<>>}>>

\* C9: never-put keys are absent, and contains agrees with get.
C9_AbsentKeys == [](C9_NeverPut) /\ [][C9_ContainsStep]_vars

\* A contains of a never-put key has returned while the bucket of that key
\* holds an entry of another key.
C9_Witness ==
    \E t \in Threads :
        /\ pc[t] = "ret" /\ op[t] = "contains"
        /\ key[t] \notin everPut
        /\ buckets_[getBucketIndex(key[t])] # <<>>

\* The test case of that name has made all its calls and has all its results.
Done(name) == test = name /\ script = <<>> /\ pc[Main] = "idle"

\* C6: from any state of the map, after put(k, v1) and put(k, v2) made one after
\* the other, get(k) returns v2, size() is what it was before the second put,
\* and k has exactly one entry.
C6_UpsertOverwrites ==
    Done("update") =>
        /\ obs[4].res = <<obs[3].val>>
        /\ obs[5].res = obs[2].res
        /\ KeyCount(obs[3].key) = 1

\* The update test is over: the two puts wrote different values, into a map
\* that holds another key as well.
C6_Witness ==
    /\ Done("update")
    /\ obs[1].val # obs[3].val
    /\ obs[2].res = <<2>>

\* C7: remove(k) returns true exactly when k had an entry (a get before it
\* returned a value); when it returns true, a following get(k) is empty, a
\* following contains(k) is false, and size() is one less than before.
C7_RemovePresent ==
    Done("remove") =>
        /\ obs[3].res = <<obs[1].res # <<>>>>
        /\ obs[3].res = <<TRUE>> =>
              /\ obs[4].res = <<>>
              /\ obs[5].res = <<FALSE>>
              /\ obs[6].res = <<obs[2].res[1] - 1>>
              /\ KeyCount(obs[3].key) = 0

\* The remove test is over: the remove returned true and left another key.
C7_Witness ==
    /\ Done("remove")
    /\ obs[3].res = <<TRUE>>
    /\ obs[6].res = <<1>>

\* C10: after puts of N distinct keys into an empty map, one after the other,
\* size() returns N, however the hash spreads the keys over the buckets.
C10_SizeAfterFill ==
    Done("fill") => obs[Len(obs)].res = <<Len(obs) - 1>>

\* The fill test is over: it put every key, and all of them fell into one
\* bucket.
C10_Witness ==
    /\ Done("fill")
    /\ Len(obs) - 1 = MaxKey + 1
    /\ \E b \in BucketIds : Len(buckets_[b]) = MaxKey + 1

\* C4: once all workers of the stress test have finished their puts of
\* pairwise disjoint keys, made in any interleaving and with any spread of the
\* keys over the buckets, every key has its worker's value in the map, every
\* get returns it, and size() returns NumThreads * PerThread.
C4_NoLostInserts ==
    phase = "verify" =>
        /\ \A k \in StressKeys : Answers(buckets_, k) = {<<k * 2>>}
        /\ \A t \in Threads :
              pc[t] = "ret" =>
                  /\ op[t] = "get" => res[t] = <<key[t] * 2>>
                  /\ op[t] = "size" => res[t] = <<NumThreads * PerThread>>

\* All keys fell into one bucket, puts of different workers alternate in its
\* chain, one verifying thread has its value and another its size.
C4_Witness ==
    /\ phase = "verify"
    /\ \E b \in BucketIds :
          /\ Len(buckets_[b]) = NumThreads * PerThread
          /\ buckets_[b][1].first = StressKey(1, 0)
          /\ buckets_[b][2].first = StressKey(2, 0)
    /\ \E t, u \in Threads :
          /\ pc[t] = "ret" /\ op[t] = "get"
          /\ pc[u] = "ret" /\ op[u] = "size"

\* ------------------------------------------------------------------- C11
\* C11: with no concurrent operation, from any state of the map: once clear()
\* has returned, size() returns 0 and get() of every key returns nullopt; a
\* put made afterwards is found by the get that follows it.
C11_ClearEmpties ==
    Done("clear") =>
        /\ obs[2].op = "clear"
        /\ obs[3].res = <<0>>
        /\ \A i \in 4..(MaxKey + 4) : obs[i].op = "get" /\ obs[i].res = <<>>
        /\ obs[MaxKey + 5].op = "put"
        /\ obs[MaxKey + 6].res = <<obs[MaxKey + 5].val>>

\* The test case has run on a map that held every key, in more than one bucket.
C11_Witness ==
    /\ Done("clear")
    /\ obs[1].res = <<MaxKey + 1>>
    /\ hashOf[0] % NumBuckets # hashOf[1] % NumBuckets

\* ------------------------------------------------------------------- C16
\* The entries of a chain whose key differs from k, in their order.
OtherKeys(items, k) == SelectSeq(items, LAMBDA e : e.first # k)

\* C16: every step of a get, put, remove or contains on key k leaves the chain
\* and the mutex of every bucket other than hash(k) mod NumBuckets as they
\* were, and leaves the entries of keys other than k as they were in every
\* chain; no step of get, contains or size changes a chain.
C16_FrameStep ==
    \A t \in Threads :
        pc[t] # "idle" /\ pc'[t] # pc[t] =>
            /\ op[t] \in {"get", "put", "remove", "contains"} =>
                  /\ \A b \in BucketIds \ {hashOf[key[t]] % NumBuckets} :
                        buckets_'[b] = buckets_[b] /\ mutex'[b] = mutex[b]
                  /\ \A b \in BucketIds :
                        OtherKeys(buckets_'[b], key[t]) = OtherKeys(buckets_[b], key[t])
            /\ op[t] \in {"get", "contains", "size"} => buckets_' = buckets_

C16_SingleBucketFrame == [][C16_FrameStep]_vars

\* A put has overwritten the value of its key in a chain where an entry of
\* another key stands before it.
C16_Witness ==
    \E t \in Threads :
        /\ pc[t] = "ret" /\ op[t] = "put"
        /\ LET items == buckets_[getBucketIndex(key[t])]
           IN  /\ Len(items) = 2
               /\ items[1].first # key[t]
               /\ items[2] = Pair(key[t], val[t])
               /\ items[1].second # val[t]

\* ------------------------------------------------------------------- C17
\* C17: a get, contains or size step waiting for a bucket's shared lock can
\* take it whenever no thread owns the mutex exclusively, however many readers
\* hold it; and the shared holders of a mutex are all inside a read of that
\* bucket.
C17_ReadersShare ==
    \A t \in Threads :
        /\ pc[t] = "wait" /\ IsReader(t) /\ mutex[HashTarget(t)].owner = 0
              => ENABLED Acquire(t)
        /\ \A b \in BucketIds :
              t \in mutex[b].shared => pc[t] = "held" /\ IsReader(t) /\ HashTarget(t) = b

\* Two threads scan the same bucket at the same time, one in get and one in
\* size, both holding its mutex shared.
C17_Witness ==
    \E t, u \in Threads : \E b \in BucketIds :
        /\ t # u
        /\ pc[t] = "held" /\ op[t] = "get" /\ HashTarget(t) = b
        /\ pc[u] = "held" /\ op[u] = "size" /\ HashTarget(u) = b
        /\ mutex[b] = [owner |-> 0, shared |-> {t, u}]
        /\ buckets_[b] # <<>>

\* ------------------------------------------------------------------- C18
\* The racing remove calls that have returned true.
Winners == {t \in Threads : pc[t] = "ret" /\ res[t] = <<TRUE>>}

\* C18: while the threads race to remove a key that had one entry, and no
\* thread puts, at most one remove has returned true; once every remove that
\* was called has its result, exactly one has returned true.
C18_RemoveWonOnce ==
    test = "race" =>
        /\ Cardinality(Winners) <= 1
        /\ (\E t \in Threads : pc[t] # "idle")
              /\ (\A t \in Threads : pc[t] \in {"idle", "ret"})
              => Cardinality(Winners) = 1

\* Every thread has its result of the race for a key that shared its chain
\* with another key; the other key's entry is still there.
C18_Witness ==
    /\ test = "race"
    /\ \A t \in Threads : pc[t] = "ret" /\ op[t] = "remove"
    /\ Cardinality(Winners) = 1
    /\ buckets_[getBucketIndex(script[1].key)] # <<>>

\* ------------------------------------------------------------------- C14
\* C14: a thread that has returned from a call, contains included, holds no
\* bucket's mutex, so the other threads can mutate the bucket before its next
\* call; and contains(k) returning true is followed by an empty get(k) or a
\* false remove(k) of the same thread only when another thread's step took
\* the entry of k away in between.
C14_ContainsThenAct ==
    /\ \A t \in Threads : \A b \in BucketIds :
          pc[t] \in {"idle", "ret"} => mutex[b].owner # t /\ t \notin mutex[b].shared
    /\ Done("check") /\ obs[1].res = <<TRUE>> =>
          /\ obs[2].op = "get" => obs[2].res # <<>>
          /\ obs[2].op = "remove" => obs[2].res = <<TRUE>>

\* contains(k) has returned true and the get(k) called next by the same thread
\* has returned nullopt: another thread erased the entry in between.
C14_Witness ==
    /\ Done("check-erased")
    /\ obs[1] = [op |-> "contains", key |-> obs[2].key, val |-> 0, res |-> <<TRUE>>]
    /\ obs[2].op = "get"
    /\ obs[2].res = <<>>

\* The same with remove(k) as the second call: it has returned false.
C14_WitnessRemove ==
    /\ Done("check-erased")
    /\ obs[1].res = <<TRUE>>
    /\ obs[2].op = "remove"
    /\ obs[2].res = <<FALSE>>

\* ------------------------------------------------------------------- C19
\* C19: in every interleaving of get, put and remove calls, under every
\* assignment of the keys to the buckets, each call returns what the
\* MutexHashMap returns for it, and a lookup of any key answers the same on
\* both maps.
C19_SameAsMutexHashMap ==
    /\ \A t \in Threads : pc[t] = "ret" => res[t] = ref[t]
    /\ \A k \in Keys : Answers(buckets_, k) = {MutexGet(map_, k)}

\* Both maps hold one key after a remove that returned true on both, while a
\* get of the other thread has returned a value on both.
C19_Witness ==
    \E t, u \in Threads :
        /\ pc[t] = "ret" /\ op[t] = "remove" /\ res[t] = <<TRUE>> /\ ref[t] = <<TRUE>>
        /\ pc[u] = "ret" /\ op[u] = "get" /\ res[u] # <<>> /\ ref[u] = res[u]
        /\ DOMAIN map_ = Keys \ {key[t]}
        /\ TotalEntries = MaxKey

\* ------------------------------------------------------------------- C12
\* C12, the states: a thread in size() holds shared the mutex of the bucket
\* its loop is at while it counts it, and no other mutex.
C12_SizeLocks ==
    \A t \in Threads :
        op[t] = "size" =>
            \A b \in BucketIds :
                /\ t \in mutex[b].shared <=> pc[t] = "held" /\ idx[t] = b
                /\ mutex[b].owner # t

\* C12, the steps: the step that counts a bucket adds the length its chain has
\* at that moment, releases the bucket's mutex, and moves on to the bucket
\* next in index order, or returns the sum after the last bucket.
C12_SizeInSequence ==
    \A t \in Threads :
        op[t] = "size" /\ pc[t] = "held" /\ pc'[t] # "held" =>
            LET n == total[t] + Len(buckets_[idx[t]])
            IN  /\ t \notin mutex'[idx[t]].shared
                /\ pc'[t] = "wait" => idx'[t] = idx[t] + 1 /\ total'[t] = n
                /\ pc'[t] = "ret" => idx[t] = NumBuckets - 1 /\ res'[t] = <<n>>
                /\ pc'[t] \in {"wait", "ret"}

\* C12: size() locks the buckets one at a time and in sequence, counting each
\* at its own moment.  (That its result can miss the entry count of every
\* instant of the call is the state C12_Witness.)
C12_SizeWeaklyConsistent == [](C12_SizeLocks) /\ [][C12_SizeInSequence]_vars

\* size() has returned a value that the entry count of the map had at no
\* instant since the call, with puts and removes of another thread racing it.
C12_Witness ==
    \E t \in Threads :
        /\ pc[t] = "ret" /\ op[t] = "size"
        /\ res[t][1] \notin counts[t]
        /\ racing[t] = {"put", "remove"}

\* ------------------------------------------------------------------- C13
\* C13, the states: a thread in clear() owns the mutex of the bucket its loop
\* is at while it drains it, and holds no other mutex.
C13_ClearLocks ==
    \A t \in Threads :
        op[t] = "clear" =>
            \A b \in BucketIds :
                /\ mutex[b].owner = t <=> pc[t] = "held" /\ idx[t] = b
                /\ t \notin mutex[b].shared

\* C13, the steps: the draining step leaves the chain of its bucket empty and
\* every other chain as it was, releases the mutex, and moves on to the
\* bucket next in index order, or returns after the last bucket.
C13_ClearInSequence ==
    \A t \in Threads :
        op[t] = "clear" /\ pc[t] = "held" /\ pc'[t] # "held" =>
            /\ buckets_' = [buckets_ EXCEPT ![idx[t]] = <<>>]
            /\ mutex'[idx[t]].owner = 0
            /\ pc'[t] = "wait" => idx'[t] = idx[t] + 1
            /\ pc'[t] = "ret" => idx[t] = NumBuckets - 1
            /\ pc'[t] \in {"wait", "ret"}

\* C13: clear() drains the buckets one at a time, each under its exclusive
\* lock, in sequence.  (That the map can be empty at no instant of the call and
\* hold an entry when clear() returns is the state C13_Witness.)
C13_ClearWeaklyConsistent == [](C13_ClearLocks) /\ [][C13_ClearInSequence]_vars

\* clear() has returned, raced by puts only; the map was empty at no instant
\* since the call, and it holds an entry now.
C13_Witness ==
    \E t \in Threads :
        /\ pc[t] = "ret" /\ op[t] = "clear"
        /\ 0 \notin counts[t]
        /\ TotalEntries > 0
        /\ racing[t] = {"put"}

\* ------------------------------------------------------------------- C20
\* C20: a size() call raced by puts only returns at least the number of
\* entries the map had when size() was called and at most the number it has
\* when the result is there; raced by no put, remove or clear, it returns the
\* number of entries of the map.
C20_RacingSizeBounds ==
    \A t \in Threads :
        pc[t] = "ret" /\ op[t] = "size" =>
            /\ racing[t] \subseteq {"put"} =>
                  first[t] <= res[t][1] /\ res[t][1] <= TotalEntries
            /\ racing[t] = {} => res[t] = <<TotalEntries>>

\* size(), raced by puts only, has returned more than the map held at the call
\* and less than it holds now.
C20_Witness ==
    \E t \in Threads :
        /\ pc[t] = "ret" /\ op[t] = "size"
        /\ racing[t] = {"put"}
        /\ first[t] < res[t][1]
        /\ res[t][1] < TotalEntries

\* size() raced by no mutation has returned the count of a map with entries
\* in two buckets.
C20_WitnessExact ==
    \E t \in Threads :
        /\ pc[t] = "ret" /\ op[t] = "size"
        /\ racing[t] = {}
        /\ res[t] = <<MaxKey + 1>>
        /\ \A b \in BucketIds : buckets_[b] # <<>>

\* ------------------------------------------------------------------- C15
\* SpecFair: the free concurrent run under fair scheduling.  A thread that can
\* run does run: a lock holder goes on to the end of its lock's scope, a
\* caller takes its result, and a thread blocked in lock() or lock_shared()
\* gets the mutex if it stays available to it.  std::shared_mutex promises no
\* order among the threads contending for it, so nothing more is assumed of
\* an acquisition; and no thread is bound to make another call.
SpecFair ==
    /\ Spec
    /\ \A t \in Threads :
          /\ WF_vars(Acquire(t))
          /\ WF_vars(Proceed(t))
          /\ WF_vars(Plain(Return(t)))

\* A thread holds a mutex only inside the scope of its lock on its one target
\* bucket: it never waits while holding a lock.
C15_HoldsOnlyTarget ==
    \A t \in Threads : \A b \in BucketIds :
        mutex[b].owner = t \/ t \in mutex[b].shared =>
            pc[t] = "held" /\ HashTarget(t) = b

\* Some thread can always step: while a thread waits, a lock holder can go on
\* or the waiting thread can take the lock.
C15_NoDeadlock ==
    (\E t \in Threads : pc[t] = "wait") =>
        \E u \in Threads : ENABLED Acquire(u) \/ ENABLED Proceed(u)

C15_PutAmongGets ==
    \A t \in Threads :
        (pc[t] = "wait" /\ op[t] = "put") ~>
            (pc[t] = "held" \/ \E u \in Threads \ {t} : op[u] \notin {"none", "get"})

====
